---- MODULE Spec2Model ----
(***************************************************************************)
(* Funding-Rate-Monitoring-UI: the subscription orchestrator (the          *)
(* ws_manager task of App::run), the adapter tasks it starts through       *)
(* create_batch_websocket_task, and the reconnect loop of                  *)
(* lighter_websocket.                                                      *)
(*                                                                         *)
(* Spec        the orchestrator, its channels and the adapter tasks        *)
(* SpecLighter one run of lighter_websocket: backoff, keepalive, timeout   *)
(* SpecListing coin_list_metadate_lighter applied to funding-rate listings *)
(* SpecFeed    the adapters of one selection turning wire messages into    *)
(*             updates on the outbound channel                             *)
(***************************************************************************)
EXTENDS Integers, Sequences, FiniteSets, TLC

\* ------------------------------------------------------------------ bounds
\* selection commands the UI sends in one run
MaxCmds == 2
\* updates in flight on the outbound channel (sent, not yet received by the UI)
MaxFeed == 1
\* adapter tasks that fail while starting in one run
MaxEnds == 1
\* consecutive failed connection attempts of the Lighter adapter
MaxFailures == 8
\* entries of a funding_rates array
MaxListing == 3
\* wire messages the adapters of one selection handle in one run
MaxMsgs == 2

\* --------------------------------------------------------- program constants
\* App::new: current_exchange starts at 1
InitialExchange == 1
\* lighter_websocket: max_reconnect_delay, the first reconnect_delay
MaxReconnectDelaySecs == 60
InitialReconnectDelaySecs == 1
\* lighter_websocket: interval(30 s) and timeout(60 s, read.next())
PingIntervalSecs == 30
ReadTimeoutSecs == 60

VARIABLES
    \* ---- ws_manager (App::run)
    mgr_pc,          \* "init" | "recv" | "fetch" | "drain" | "panicked"
    exchange_rx,     \* commands sent by the UI and not yet received
    sent,            \* number of commands the UI has sent
    last_exchange,   \* local last_exchange
    new_exchange,    \* the command being handled (bound by the select! arm)
    current_coins,   \* local current_coins
    join_set,        \* generations whose wrapper task is in the JoinSet
    gen,             \* number of start_websockets calls so far
    coin_list_rx,    \* every list sent on coin_list_tx, in order
    \* ---- adapter tasks (tokio::spawn in create_batch_websocket_task)
    adapters,        \* sequence of adapter tasks, in spawn order; status is
                     \* "starting" | "running" | "panic" | "err"
    rx,              \* updates sent on tx and not yet received by the UI
    \* ---- history of the command loop
    handled,         \* one record per command handled: the command, the selection
                     \* before it, what happened, the list the fetch returned
    before,          \* the orchestrator's state when the command was received
    \* ---- lighter_websocket
    lt_pc,           \* "listing" | "connect" | "subscribe" | "streaming" | "failed"
                     \* | "panicked"
    reconnect_delay, \* local reconnect_delay, seconds
    lt_sleeps,       \* sleeps since start or since the last successful connect
    lt_idle,         \* seconds since the pending timeout(60 s, ..) was created
    lt_ping,         \* seconds since the last ping_interval tick
    lt_silent,       \* seconds since the last inbound frame (or loop entry)
    lt_last,         \* the last result of read.next() on this connection that the
                     \* loop has handled, what it wrote on the socket while
                     \* handling it, and how many updates it sent on tx
    lt_subscribed,   \* the subscribe messages given to write.send on this connection
    lt_age,          \* seconds since the receive loop was entered
    lt_pings,        \* keepalive pings sent since the receive loop was entered
    lt_market_map,   \* market_map: market id -> symbol
    lt_fetches,      \* calls of coin_list_metadate_lighter made by this adapter
    \* ---- coin_list_metadate_lighter
    listing_in,      \* the funding_rates array of a response
    listing_out,     \* the listing after each run of the dedup and sort on it
    \* ---- the adapters of one create_batch_websocket_task call
    fd_exchange,     \* argument current_exchange
    fd_coins,        \* argument coins
    fd_status,       \* per adapter function: "off" | "starting" | "running"
                     \* | "panicked" | "returned"
    fd_market_map,   \* lighter_websocket's market_map
    fd_tx,           \* the outbound channel: updates sent and not yet received
    fd_sent,         \* per adapter function: number of updates it has sent
    fd_seen,         \* per adapter function: number of its updates received
    fd_msgs,         \* number of wire messages handled
    fd_taken,        \* per adapter function: the perpetual active-contexts (hl),
                     \* the market-statistics entries (lt) among those messages
    fd_subs,         \* hyperliquid_websocket: the client.subscribe calls made
    fd_senders,      \* hyperliquid_websocket: who holds a Sender of its inner
                     \* channel: the function ("adapter"), the SDK's client ("sdk")
    \* --- TuiApp (ui/app.rs), the consumer of the updates
    items,           \* TuiApp.items: the rows of the table, Vec<CoinData>
    tb_rx,           \* the updates sent to the consumer and not yet received
    tb_emitted       \* every update sent to the consumer, in the order sent

mgr_vars == <<mgr_pc, exchange_rx, sent, last_exchange, new_exchange, current_coins,
              join_set, gen, coin_list_rx, adapters, rx, handled, before>>
lt_vars == <<lt_pc, reconnect_delay, lt_sleeps, lt_idle, lt_ping, lt_silent, lt_last,
             lt_subscribed, lt_age, lt_pings, lt_market_map, lt_fetches>>
lt_listing_vars == <<lt_market_map, lt_fetches>>
nl_vars == <<listing_in, listing_out>>
fd_vars == <<fd_exchange, fd_coins, fd_status, fd_market_map, fd_tx, fd_sent, fd_seen,
             fd_msgs, fd_taken, fd_subs, fd_senders>>
tb_vars == <<items, tb_rx, tb_emitted>>
vars == <<mgr_vars, lt_vars, nl_vars, fd_vars, tb_vars>>

Min(a, b) == IF a <= b THEN a ELSE b

\* ---------------------------------------------------------------- metadata
\* The u8 values the UI can put on exchange_tx: 1, 2, 3 and the unknown 0.
ExchangeIds == 0..3

\* Listings the Hyperliquid meta endpoint may return (universe, by asset name).
HyperliquidListings == { <<"BTC", "ETH", "SOL">> }

\* Raw funding_rates arrays the Lighter endpoint may return.
FR(id, sym) == [market_id |-> id, symbol |-> sym]
LighterListings ==
    { << FR(1, "BTC"), FR(1, "BTC"), FR(0, "ETH") >>,
      << FR(1, "BTC"), FR(0, "ETH"), FR(1, "WBTC") >> }

\* Vec::dedup_by_key: drop every element whose key equals the key of the
\* element kept just before it.
RECURSIVE DedupFrom(_, _)
DedupFrom(s, acc) ==
    IF s = <<>> THEN acc
    ELSE IF acc # <<>> /\ acc[Len(acc)].market_id = Head(s).market_id
         THEN DedupFrom(Tail(s), acc)
         ELSE DedupFrom(Tail(s), Append(acc, Head(s)))
dedup_by_key(s) == DedupFrom(s, <<>>)

\* slice::sort_by(market_id): a stable sort.
RECURSIVE InsertSorted(_, _)
InsertSorted(s, x) ==
    IF s = <<>> THEN <<x>>
    ELSE IF x.market_id < Head(s).market_id THEN <<x>> \o s
         ELSE <<Head(s)>> \o InsertSorted(Tail(s), x)
RECURSIVE SortFrom(_, _)
SortFrom(s, acc) ==
    IF s = <<>> THEN acc ELSE SortFrom(Tail(s), InsertSorted(acc, Head(s)))
sort_by(s) == SortFrom(s, <<>>)

\* coin_list_metadate_lighter on a response whose code is 200.
coin_list_metadate_lighter(raw) == sort_by(dedup_by_key(raw))

\* lighter_websocket lines 138-141: HashMap<u8, String> filled in listing
\* order, a later entry of the same market_id replacing the earlier one.
BuildMarketMap(funding_rates) ==
    LET ids == { funding_rates[i].market_id : i \in DOMAIN funding_rates }
        last(id) == CHOOSE i \in DOMAIN funding_rates :
                        /\ funding_rates[i].market_id = id
                        /\ \A j \in DOMAIN funding_rates :
                               funding_rates[j].market_id = id => j <= i
    IN  [id \in ids |-> funding_rates[last(id)].symbol]

Symbols(rates) == [i \in DOMAIN rates |-> rates[i].symbol]

fetch_coin_list_merged(exchange) ==
    CASE exchange = 2 -> { Symbols(coin_list_metadate_lighter(raw)) : raw \in LighterListings }
      [] exchange = 3 -> { hl \o Symbols(coin_list_metadate_lighter(raw))
                             : hl \in HyperliquidListings, raw \in LighterListings }
      [] OTHER -> HyperliquidListings

\* App::fetch_coin_list(exchange), when its request succeeds: the lists it can
\* return.  (When the request fails it does not return: see FetchPanics.)
fetch_coin_list(exchange) ==
    IF exchange = 2
    THEN { Symbols(coin_list_metadate_lighter(raw)) : raw \in LighterListings }
    ELSE HyperliquidListings

\* ------------------------------------------------------------ adapter tasks
AdaptersOfDefaultLighter(exchange) ==
    CASE exchange = 1 -> << [kind |-> "hl", tag |-> 1] >>
      [] exchange = 3 -> << [kind |-> "hl", tag |-> 3], [kind |-> "lt", tag |-> 3] >>
      [] OTHER        -> << [kind |-> "lt", tag |-> 2] >>

\* create_batch_websocket_task(coins, tx, exchange): the adapter functions the
\* spawned task runs, each with the exchange value it is handed.
AdaptersOf(exchange) ==
    CASE exchange = 1 -> << [kind |-> "hl", tag |-> 1] >>
      [] exchange = 2 -> << [kind |-> "lt", tag |-> 2] >>
      [] exchange = 3 -> << [kind |-> "hl", tag |-> 3], [kind |-> "lt", tag |-> 3] >>
      [] OTHER        -> << [kind |-> "hl", tag |-> 1] >>

NewTasks(g, exchange, coins) ==
    LET as == AdaptersOf(exchange)
    IN  [i \in DOMAIN as |->
            [gen |-> g, sel |-> exchange, kind |-> as[i].kind, tag |-> as[i].tag,
             coins |-> coins, status |-> "starting"]]

TasksOf(g) == { i \in DOMAIN adapters : adapters[i].gen = g }
\* The adapter tasks that have not ended, and those that are streaming.
Live == { i \in DOMAIN adapters : adapters[i].status \in {"starting", "running"} }
Streaming == { i \in DOMAIN adapters : adapters[i].status = "running" }

\* The task spawned by create_batch_websocket_task for generation g has ended:
\* the adapter function it awaits has returned or panicked; for exchange 3,
\* try_join! has returned (both sub-tasks ended, or one of them panicked).
OuterEnded(g) ==
    \/ \A i \in TasksOf(g) : i \notin Live
    \/ \E i \in TasksOf(g) : adapters[i].status = "panic"

\* start_websockets + join_set.spawn: spawn the adapter task(s) and put a
\* wrapper that awaits the JoinHandle into the JoinSet.
StartWebsockets(coins, exchange) ==
    /\ gen' = gen + 1
    /\ adapters' = adapters \o NewTasks(gen + 1, exchange, coins)
    /\ join_set' = join_set \cup {gen + 1}

\* ------------------------------------------------------------------- Init
MgrInit ==
    /\ mgr_pc = "init"
    /\ exchange_rx = <<>>
    /\ sent = 0
    /\ last_exchange = InitialExchange
    /\ new_exchange = InitialExchange
    /\ current_coins \in fetch_coin_list(InitialExchange)
    /\ join_set = {}
    /\ gen = 0
    /\ coin_list_rx = <<>>
    /\ adapters = <<>>
    /\ rx = <<>>
    /\ handled = <<>>
    /\ before = [sel |-> InitialExchange, coins |-> <<>>, join_set |-> {}, published |-> 0]

\* Nothing has been read on the connection yet.
NoFrame == [frame |-> "none", data |-> <<>>, wrote |-> <<>>, sent |-> 0]

LtIdle ==
    /\ lt_pc = "listing"
    /\ lt_last = NoFrame
    /\ lt_subscribed = <<>>
    /\ lt_age = 0
    /\ lt_pings = 0
    /\ lt_market_map = <<>>
    /\ lt_fetches = 0
    /\ reconnect_delay = InitialReconnectDelaySecs
    /\ lt_sleeps = <<>>
    /\ lt_idle = 0
    /\ lt_ping = 0
    /\ lt_silent = 0

\* No listing is being normalised.
ListingIdle ==
    /\ listing_in = <<>>
    /\ listing_out = <<>>

Kinds == {"hl", "lt"}

\* No create_batch_websocket_task call is looked at on its own.
FeedIdle ==
    /\ fd_exchange = InitialExchange
    /\ fd_coins = <<>>
    /\ fd_status = [k \in Kinds |-> "off"]
    /\ fd_market_map = <<>>
    /\ fd_tx = <<>>
    /\ fd_sent = [k \in Kinds |-> 0]
    /\ fd_seen = [k \in Kinds |-> 0]
    /\ fd_msgs = 0
    /\ fd_taken = [k \in Kinds |-> 0]
    /\ fd_subs = <<>>
    /\ fd_senders = {}

\* No TuiApp has been built.
TableIdle ==
    /\ items = <<>>
    /\ tb_rx = <<>>
    /\ tb_emitted = <<>>

Init == MgrInit /\ LtIdle /\ ListingIdle /\ FeedIdle /\ TableIdle

\* ------------------------------------------------------------ ws_manager
\* App::run lines 121-139: abort_all and the drain loop on the empty JoinSet,
\* then the initial task.
StartInitial ==
    /\ mgr_pc = "init"
    /\ StartWebsockets(current_coins, last_exchange)
    /\ mgr_pc' = "recv"
    /\ UNCHANGED <<lt_vars, nl_vars, fd_vars, tb_vars>>
    /\ UNCHANGED <<exchange_rx, sent, last_exchange, new_exchange, current_coins,
                   coin_list_rx, rx, handled, before>>

\* The UI task sends a selection on exchange_tx (unbounded channel).
SendExchange(c) ==
    /\ sent < MaxCmds
    /\ sent' = sent + 1
    /\ exchange_rx' = Append(exchange_rx, c)
    /\ UNCHANGED <<lt_vars, nl_vars, fd_vars, tb_vars>>
    /\ UNCHANGED <<mgr_pc, last_exchange, new_exchange, current_coins, join_set, gen,
                   coin_list_rx, adapters, rx, handled, before>>

ChangedAlways(new, last) == TRUE
\* `if new_exchange != last_exchange`
Changed(new, last) == new # last

\* select! arm `Some(new_exchange) = exchange_rx.recv()`, up to the await of
\* fetch_coin_list (or to the end of the arm when the exchange is unchanged).
RecvExchange ==
    /\ mgr_pc = "recv"
    /\ exchange_rx # <<>>
    /\ exchange_rx' = Tail(exchange_rx)
    /\ new_exchange' = Head(exchange_rx)
    /\ IF Changed(Head(exchange_rx), last_exchange)
       THEN /\ last_exchange' = Head(exchange_rx)
            /\ mgr_pc' = "fetch"
            /\ before' = [sel |-> last_exchange, coins |-> current_coins,
                          join_set |-> join_set, published |-> Len(coin_list_rx)]
            /\ UNCHANGED handled
       ELSE /\ handled' = Append(handled, [cmd |-> Head(exchange_rx), prev |-> last_exchange,
                                            outcome |-> "noop", coins |-> <<>>])
            /\ UNCHANGED <<last_exchange, mgr_pc, before>>
    /\ UNCHANGED <<lt_vars, nl_vars, fd_vars, tb_vars>>
    /\ UNCHANGED <<sent, current_coins, join_set, gen, coin_list_rx, adapters, rx>>

PublishedOld(new_coins, old_coins) == old_coins
\* What is sent on coin_list_tx when the fetch has returned new_coins.
Published(new_coins, old_coins) == new_coins

\* fetch_coin_list returned Ok(new_coins): current_coins is replaced, the list
\* is sent on coin_list_tx, join_set.abort_all() is called and the drain loop
\* starts awaiting join_next.
FetchOk ==
    /\ mgr_pc = "fetch"
    /\ \E new_coins \in fetch_coin_list(new_exchange) :
          /\ current_coins' = new_coins
          /\ coin_list_rx' = Append(coin_list_rx, Published(new_coins, current_coins))
          /\ handled' = Append(handled, [cmd |-> new_exchange, prev |-> before.sel,
                                          outcome |-> "switched", coins |-> new_coins])
    /\ mgr_pc' = "drain"
    /\ UNCHANGED <<lt_vars, nl_vars, fd_vars, tb_vars>>
    /\ UNCHANGED <<exchange_rx, sent, last_exchange, new_exchange, join_set, gen,
                   adapters, rx, before>>

\* The request inside fetch_coin_list failed: coin_list_metadata() panics in
\* its expect, coin_list_metadate_lighter() returns Err and fetch_coin_list
\* unwraps it.  The panic unwinds the ws_manager task; dropping its JoinSet
\* aborts the wrapper tasks in it.
FetchPanics ==
    /\ mgr_pc = "fetch"
    /\ mgr_pc' = "panicked"
    /\ join_set' = {}
    /\ handled' = Append(handled, [cmd |-> new_exchange, prev |-> before.sel,
                                    outcome |-> "fetch_failed", coins |-> <<>>])
    /\ UNCHANGED <<lt_vars, nl_vars, fd_vars, tb_vars>>
    /\ UNCHANGED <<exchange_rx, sent, last_exchange, new_exchange, current_coins, gen,
                   coin_list_rx, adapters, rx, before>>

\* `while let Some(result) = join_set.join_next().await`: one aborted (or
\* finished) wrapper task is joined and leaves the JoinSet.  Aborting the
\* wrapper drops the JoinHandle it awaits, which detaches the adapter task:
\* adapters is not changed.
DrainNext ==
    /\ mgr_pc = "drain"
    /\ \E g \in join_set : join_set' = join_set \ {g}
    /\ UNCHANGED <<lt_vars, nl_vars, fd_vars, tb_vars>>
    /\ UNCHANGED <<mgr_pc, exchange_rx, sent, last_exchange, new_exchange, current_coins,
                   gen, coin_list_rx, adapters, rx, handled, before>>

\* join_next() returned None: start_websockets for the new exchange.
SpawnNew ==
    /\ mgr_pc = "drain"
    /\ join_set = {}
    /\ StartWebsockets(current_coins, new_exchange)
    /\ mgr_pc' = "recv"
    /\ UNCHANGED <<lt_vars, nl_vars, fd_vars, tb_vars>>
    /\ UNCHANGED <<exchange_rx, sent, last_exchange, new_exchange, current_coins,
                   coin_list_rx, rx, handled, before>>

JoinNextPropagates ==
    /\ mgr_pc = "recv"
    /\ \E g \in join_set : OuterEnded(g)
    /\ mgr_pc' = "panicked"
    /\ join_set' = {}
    /\ UNCHANGED <<lt_vars, nl_vars, fd_vars, tb_vars>>
    /\ UNCHANGED <<exchange_rx, sent, last_exchange, new_exchange, current_coins,
                   gen, coin_list_rx, adapters, rx, handled, before>>

\* select! arm `Some(result) = join_set.join_next()`: a wrapper whose adapter
\* task has ended is joined; the result is ignored.
JoinNext ==
    /\ mgr_pc = "recv"
    /\ \E g \in join_set : OuterEnded(g) /\ join_set' = join_set \ {g}
    /\ UNCHANGED <<lt_vars, nl_vars, fd_vars, tb_vars>>
    /\ UNCHANGED <<mgr_pc, exchange_rx, sent, last_exchange, new_exchange, current_coins,
                   gen, coin_list_rx, adapters, rx, handled, before>>

\* ------------------------------------------------------------ adapters
\* handle_hyperliquid_message / handle_lighter_message: tx.send((.., exchange))
\* with the exchange value the adapter function was given.
\* at_sel, settled and stale record when the update was sent: the selection
\* then current, whether the orchestrator was between two commands, and
\* whether the sender was started for an earlier selection than the last one.
Update(a) ==
    [tag |-> a.tag, kind |-> a.kind, sel |-> a.sel,
     at_sel |-> last_exchange, settled |-> (mgr_pc = "recv"), stale |-> (a.gen # gen)]

Emit(i) ==
    /\ i \in Streaming
    /\ Len(rx) < MaxFeed
    /\ rx' = Append(rx, Update(adapters[i]))
    /\ UNCHANGED <<lt_vars, nl_vars, fd_vars, tb_vars>>
    /\ UNCHANGED <<mgr_pc, exchange_rx, sent, last_exchange, new_exchange, current_coins,
                   join_set, gen, coin_list_rx, adapters, handled, before>>

\* hyperliquid_websocket has created its client and subscribed every coin;
\* lighter_websocket has fetched the funding-rate listing.  From here on
\* neither function returns: hyperliquid_websocket keeps sender_channel, so
\* receiver_channel.recv() never yields None, and lighter_websocket loops
\* (it can still panic: see AdapterPanics).
AdapterReady(i) ==
    /\ i \in DOMAIN adapters
    /\ adapters[i].status = "starting"
    /\ adapters' = [adapters EXCEPT ![i].status = "running"]
    /\ UNCHANGED <<lt_vars, nl_vars, fd_vars, tb_vars>>
    /\ UNCHANGED <<mgr_pc, exchange_rx, sent, last_exchange, new_exchange, current_coins,
                   join_set, gen, coin_list_rx, rx, handled, before>>

\* How an adapter function ends while it starts.  hyperliquid_websocket:
\* a panic in one of its expects (InfoClient::new, subscribe).
\* lighter_websocket: Err when the funding-rate listing cannot be fetched.
StartFailure(kind) == IF kind = "hl" THEN "panic" ELSE "err"

Ended == { i \in DOMAIN adapters : adapters[i].status \in {"panic", "err"} }

AdapterFails(i) ==
    /\ i \in DOMAIN adapters
    /\ adapters[i].status = "starting"
    /\ Cardinality(Ended) < MaxEnds
    /\ adapters' = [adapters EXCEPT ![i].status = StartFailure(adapters[i].kind)]
    /\ UNCHANGED <<lt_vars, nl_vars, fd_vars, tb_vars>>
    /\ UNCHANGED <<mgr_pc, exchange_rx, sent, last_exchange, new_exchange, current_coins,
                   join_set, gen, coin_list_rx, rx, handled, before>>

\* lighter_websocket panics in its receive loop: the Text arm slices a text
\* frame off a char boundary for one of its log previews.
AdapterPanics(i) ==
    /\ i \in Streaming
    /\ adapters[i].kind = "lt"
    /\ Cardinality(Ended) < MaxEnds
    /\ adapters' = [adapters EXCEPT ![i].status = "panic"]
    /\ UNCHANGED <<lt_vars, nl_vars, fd_vars, tb_vars>>
    /\ UNCHANGED <<mgr_pc, exchange_rx, sent, last_exchange, new_exchange, current_coins,
                   join_set, gen, coin_list_rx, rx, handled, before>>

\* TuiApp::run: `while let Ok(..) = rx.try_recv()`.
TryRecv ==
    /\ rx # <<>>
    /\ rx' = Tail(rx)
    /\ UNCHANGED <<lt_vars, nl_vars, fd_vars, tb_vars>>
    /\ UNCHANGED <<mgr_pc, exchange_rx, sent, last_exchange, new_exchange, current_coins,
                   join_set, gen, coin_list_rx, adapters, handled, before>>

Next ==
    \/ StartInitial
    \/ \E c \in ExchangeIds : SendExchange(c)
    \/ RecvExchange
    \/ FetchOk
    \/ FetchPanics
    \/ DrainNext
    \/ SpawnNew
    \/ JoinNext
    \/ \E i \in DOMAIN adapters : Emit(i)
    \/ \E i \in DOMAIN adapters : AdapterReady(i)
    \/ \E i \in DOMAIN adapters : AdapterFails(i)
    \/ \E i \in DOMAIN adapters : AdapterPanics(i)
    \/ TryRecv

Spec == Init /\ [][Next]_vars

\* ======================================================== lighter_websocket
\* One run of lighter_websocket.  Time is counted in seconds and passes in
\* steps of TimeStep while the adapter waits in its select!.  A tokio timer
\* completes at or after its deadline, when the task is next polled: an arm
\* whose timer is due may be taken late, and when both arms are ready select!
\* takes either.
TimeStep == PingIntervalSecs \div 2
MaxSilence == 2 * ReadTimeoutSecs
\* The receive loop is followed for this long.
MaxLoopSecs == 3 * ReadTimeoutSecs

BackoffUncapped(d) == d * 2
\* `reconnect_delay = min(reconnect_delay * 2, max_reconnect_delay)`
Backoff(d) == Min(d * 2, MaxReconnectDelaySecs)

SleepAfterBackoff(why) ==
    /\ lt_sleeps' = Append(lt_sleeps, [d |-> Backoff(reconnect_delay), why |-> why])
    /\ reconnect_delay' = Backoff(reconnect_delay)

\* `tokio::time::sleep(reconnect_delay)` followed by the doubling; why names
\* the place of the sleep: after a failed "connect", after a failed
\* "subscribe" send, after a failed "ping" send, or after the receive loop
\* was left for another reason ("stream").
SleepAndBackoff(why) ==
    /\ lt_sleeps' = Append(lt_sleeps, [d |-> reconnect_delay, why |-> why])
    /\ reconnect_delay' = Backoff(reconnect_delay)

\* coin_list_metadate_lighter() returned the listing: the market map is built.
LtListingOk(raw) ==
    /\ lt_pc = "listing"
    /\ lt_pc' = "connect"
    /\ lt_fetches' = lt_fetches + 1
    /\ lt_market_map' = BuildMarketMap(coin_list_metadate_lighter(raw))
    /\ UNCHANGED <<reconnect_delay, lt_sleeps, lt_idle, lt_ping, lt_silent, lt_last,
                   lt_subscribed, lt_age, lt_pings>>
    /\ UNCHANGED <<mgr_vars, nl_vars, fd_vars, tb_vars>>

\* coin_list_metadate_lighter() failed: `?` returns the error.
LtListingFails ==
    /\ lt_pc = "listing"
    /\ lt_pc' = "failed"
    /\ lt_fetches' = lt_fetches + 1
    /\ UNCHANGED <<reconnect_delay, lt_sleeps, lt_idle, lt_ping, lt_silent, lt_last,
                   lt_subscribed, lt_age, lt_pings, lt_market_map>>
    /\ UNCHANGED <<mgr_vars, nl_vars, fd_vars, tb_vars>>

LtConnectOkKeepsDelay ==
    /\ lt_pc = "connect"
    /\ lt_pc' = "subscribe"
    /\ lt_sleeps' = <<>>
    /\ lt_last' = NoFrame
    /\ lt_subscribed' = <<>>
    /\ UNCHANGED <<reconnect_delay, lt_idle, lt_ping, lt_silent, lt_age, lt_pings>>
    /\ UNCHANGED lt_listing_vars
    /\ UNCHANGED <<mgr_vars, nl_vars, fd_vars, tb_vars>>

LtConnectOkNoSubscribe ==
    /\ lt_pc = "connect"
    /\ lt_pc' = "streaming"
    /\ reconnect_delay' = InitialReconnectDelaySecs
    /\ lt_sleeps' = <<>>
    /\ lt_last' = NoFrame
    /\ lt_subscribed' = <<>>
    /\ UNCHANGED <<lt_idle, lt_ping, lt_silent, lt_age, lt_pings>>
    /\ UNCHANGED lt_listing_vars
    /\ UNCHANGED <<mgr_vars, nl_vars, fd_vars, tb_vars>>

\* connect_async returned Ok: the delay is reset; nothing has been written
\* or read on the new stream.
LtConnectOk ==
    /\ lt_pc = "connect"
    /\ lt_pc' = "subscribe"
    /\ reconnect_delay' = InitialReconnectDelaySecs
    /\ lt_sleeps' = <<>>
    /\ lt_last' = NoFrame
    /\ lt_subscribed' = <<>>
    /\ UNCHANGED <<lt_idle, lt_ping, lt_silent, lt_age, lt_pings>>
    /\ UNCHANGED lt_listing_vars
    /\ UNCHANGED <<mgr_vars, nl_vars, fd_vars, tb_vars>>

\* connect_async returned Err: sleep, double, `continue`.
LtConnectFails ==
    /\ lt_pc = "connect"
    /\ Len(lt_sleeps) < MaxFailures
    /\ SleepAndBackoff("connect")
    /\ UNCHANGED <<lt_pc, lt_idle, lt_ping, lt_silent, lt_last, lt_subscribed, lt_age,
                   lt_pings>>
    /\ UNCHANGED lt_listing_vars
    /\ UNCHANGED <<mgr_vars, nl_vars, fd_vars, tb_vars>>

SubscribeTwice ==
    << [type |-> "subscribe", channel |-> "market_stats/all"],
       [type |-> "subscribe", channel |-> "market_stats/all"] >>
\* The messages lines 186-195 give to write.send: subscribe_msg, once.
SubscribeMsgs == << [type |-> "subscribe", channel |-> "market_stats/all"] >>

\* The subscribe message was sent; ping_interval is created and its first,
\* immediate tick consumed; the receive loop is entered.
LtSubscribeOk ==
    /\ lt_pc = "subscribe"
    /\ lt_pc' = "streaming"
    /\ lt_subscribed' = lt_subscribed \o SubscribeMsgs
    /\ lt_age' = 0
    /\ lt_pings' = 0
    /\ lt_idle' = 0
    /\ lt_ping' = 0
    /\ lt_silent' = 0
    /\ lt_last' = NoFrame
    /\ UNCHANGED <<reconnect_delay, lt_sleeps>>
    /\ UNCHANGED lt_listing_vars
    /\ UNCHANGED <<mgr_vars, nl_vars, fd_vars, tb_vars>>

LtSubscribeFailsLoopEntered ==
    /\ lt_pc = "subscribe"
    /\ lt_pc' = "streaming"
    /\ lt_subscribed' = lt_subscribed \o SubscribeMsgs
    /\ SleepAndBackoff("subscribe")
    /\ UNCHANGED <<lt_idle, lt_ping, lt_silent, lt_last, lt_age, lt_pings>>
    /\ UNCHANGED lt_listing_vars
    /\ UNCHANGED <<mgr_vars, nl_vars, fd_vars, tb_vars>>

\* write.send(subscribe) failed: sleep, double, `continue`.
LtSubscribeFails ==
    /\ lt_pc = "subscribe"
    /\ lt_pc' = "connect"
    /\ lt_subscribed' = lt_subscribed \o SubscribeMsgs
    /\ SleepAndBackoff("subscribe")
    /\ UNCHANGED <<lt_idle, lt_ping, lt_silent, lt_last, lt_age, lt_pings>>
    /\ UNCHANGED lt_listing_vars
    /\ UNCHANGED <<mgr_vars, nl_vars, fd_vars, tb_vars>>

\* Time passes while the task waits in select!.
LtTick ==
    /\ lt_pc = "streaming"
    /\ lt_silent < MaxSilence
    /\ lt_ping < MaxSilence
    /\ lt_age < MaxLoopSecs
    /\ lt_age' = lt_age + TimeStep
    /\ lt_idle' = lt_idle + TimeStep
    /\ lt_ping' = lt_ping + TimeStep
    /\ lt_silent' = lt_silent + TimeStep
    /\ UNCHANGED <<lt_pc, reconnect_delay, lt_sleeps, lt_last, lt_subscribed, lt_pings>>
    /\ UNCHANGED lt_listing_vars
    /\ UNCHANGED <<mgr_vars, nl_vars, fd_vars, tb_vars>>

\* Inbound frames after which the loop goes round again: Text (parsed or
\* not), Binary, Ping answered by a Pong that was sent, Pong, any other.
KeptFrames == {"text", "text_unparsed", "binary", "ping", "pong", "other"}

\* The frames and results of read.next() that set should_reconnect, and the
\* failed Pong send.
DropCauses == {"close", "error", "end", "pong_failed"}

\* The payloads a Ping frame of the server may carry.
PingPayloads == { <<>>, <<7>> }
\* The market_stats of a text frame that parses: one or two entries.
TextPayloads == { <<1>>, <<0, 257>> }
Payloads(frame) ==
    CASE frame = "ping" -> PingPayloads
      [] frame = "text" -> TextPayloads
      [] OTHER -> { <<>> }

PongEmpty(data) == << [op |-> "pong", data |-> <<>>] >>
\* `write.send(WsMessage::Pong(data))`: what the Ping arm writes.
PongReply(data) == << [op |-> "pong", data |-> data] >>

\* What the frame arms write on the socket: only the Ping arm writes.
Reply(frame, data) == IF frame = "ping" THEN PongReply(data) ELSE <<>>

\* The number of updates a frame arm sends on tx: the Text arm calls
\* handle_lighter_message when the text parses as a MarketStatsMessage (data
\* is then its market_stats, one update per entry); no other arm sends.
UpdatesFor(frame, data) == IF frame = "text" THEN Len(data) ELSE 0

\* The timeout(60 s, read.next()) arm completed with a frame that keeps the
\* connection (a text whose previews can be sliced); the next loop iteration
\* creates a new timeout.
LtRecv(frame, data) ==
    /\ lt_pc = "streaming"
    /\ lt_idle' = 0
    /\ lt_silent' = 0
    /\ lt_last' = [frame |-> frame, data |-> data, wrote |-> Reply(frame, data),
                   sent |-> UpdatesFor(frame, data)]
    /\ UNCHANGED <<lt_pc, reconnect_delay, lt_sleeps, lt_ping, lt_subscribed, lt_age,
                   lt_pings>>
    /\ UNCHANGED lt_listing_vars
    /\ UNCHANGED <<mgr_vars, nl_vars, fd_vars, tb_vars>>

\* The byte lengths of the two log previews of the Text arm: &text[..500] of
\* a text longer than 500 bytes, and &text[..text.len().min(300)] of a text
\* that did not parse.
PreviewBytes == 500
FailurePreviewBytes == 300

\* A text frame as far as the Text arm looks at it: whether it parses as a
\* MarketStatsMessage (kind), its length in bytes, and the byte offsets that
\* fall inside a multi-byte UTF-8 character (not char boundaries).
Texts ==
    { [kind |-> "text_unparsed", len |-> 40,  inside |-> {}],
      [kind |-> "text_unparsed", len |-> 400, inside |-> {}],
      [kind |-> "text_unparsed", len |-> 400, inside |-> {FailurePreviewBytes}],
      [kind |-> "text",          len |-> 600, inside |-> {}],
      [kind |-> "text",          len |-> 600, inside |-> {PreviewBytes}] }

\* str indexing by a byte range panics when an end of the range is not a char
\* boundary; the end of the string is one.
SlicePanics(text) ==
    \/ text.len > PreviewBytes /\ PreviewBytes \in text.inside
    \/ /\ text.kind = "text_unparsed"
       /\ Min(text.len, FailurePreviewBytes) \in text.inside

\* The Text arm took a text one of whose previews cannot be sliced: the task
\* panics inside the receive loop, before handle_lighter_message.
LtTextPanics(text) ==
    /\ lt_pc = "streaming"
    /\ SlicePanics(text)
    /\ lt_pc' = "panicked"
    /\ lt_last' = [frame |-> text.kind, data |-> <<>>, wrote |-> <<>>, sent |-> 0]
    /\ UNCHANGED <<reconnect_delay, lt_sleeps, lt_idle, lt_ping, lt_silent, lt_subscribed,
                   lt_age, lt_pings>>
    /\ UNCHANGED lt_listing_vars
    /\ UNCHANGED <<mgr_vars, nl_vars, fd_vars, tb_vars>>

ReconnectRefetch(why) ==
    /\ lt_pc' = "listing"
    /\ SleepAndBackoff(why)
    /\ lt_idle' = 0
    /\ lt_ping' = 0
    /\ lt_silent' = 0
    /\ lt_age' = 0
    /\ lt_pings' = 0
    /\ UNCHANGED lt_subscribed
    /\ UNCHANGED lt_listing_vars
    /\ UNCHANGED <<mgr_vars, nl_vars, fd_vars, tb_vars>>

\* `if should_reconnect`: sleep, double, next iteration of the outer loop
\* (the stream, the timeout and ping_interval are dropped).
Reconnect(why) ==
    /\ lt_pc' = "connect"
    /\ SleepAndBackoff(why)
    /\ lt_idle' = 0
    /\ lt_ping' = 0
    /\ lt_silent' = 0
    /\ lt_age' = 0
    /\ lt_pings' = 0
    /\ UNCHANGED lt_subscribed
    /\ UNCHANGED lt_listing_vars
    /\ UNCHANGED <<mgr_vars, nl_vars, fd_vars, tb_vars>>

\* The timeout arm completed with Close, an error, the end of the stream, or
\* a Ping whose Pong could not be sent.
LtDrop(cause, data) ==
    /\ lt_pc = "streaming"
    /\ lt_last' = [frame |-> IF cause = "pong_failed" THEN "ping" ELSE cause,
                   data |-> data, wrote |-> <<>>, sent |-> 0]
    /\ Reconnect("stream")

\* The timeout arm completed with Err(Elapsed): 60 s have passed since this
\* timeout was created.
LtTimeout ==
    /\ lt_pc = "streaming"
    /\ lt_idle >= ReadTimeoutSecs
    /\ UNCHANGED lt_last
    /\ Reconnect("stream")

\* What a completed ping_interval.tick() arm whose Ping was sent does to the
\* time the pending read timeout has run: the select! drops the timeout future
\* and the next loop iteration creates a new one.
IdleAfterPing(idle) == 0

SinceTickRestarted(since) == 0
\* tokio's Interval (missed ticks are not skipped nor the period restarted):
\* the next tick is due one period after the tick just taken was due,
\* however late it was taken.  since is the time since that tick was due.
SinceTickAfterPing(since) == since - PingIntervalSecs

\* The ping_interval.tick() arm: the Ping is sent, the loop goes round.
LtPingSent ==
    /\ lt_pc = "streaming"
    /\ lt_ping >= PingIntervalSecs
    /\ lt_ping' = SinceTickAfterPing(lt_ping)
    /\ lt_idle' = IdleAfterPing(lt_idle)
    /\ lt_pings' = lt_pings + 1
    /\ UNCHANGED <<lt_pc, reconnect_delay, lt_sleeps, lt_silent, lt_last, lt_subscribed,
                   lt_age>>
    /\ UNCHANGED lt_listing_vars
    /\ UNCHANGED <<mgr_vars, nl_vars, fd_vars, tb_vars>>

\* The ping_interval.tick() arm: write.send(Ping) failed.
LtPingFails ==
    /\ lt_pc = "streaming"
    /\ lt_ping >= PingIntervalSecs
    /\ UNCHANGED lt_last
    /\ Reconnect("ping")

LtNext ==
    \/ \E raw \in LighterListings : LtListingOk(raw)
    \/ LtListingFails
    \/ LtConnectOk
    \/ LtConnectFails
    \/ LtSubscribeOk
    \/ LtSubscribeFails
    \/ LtPingSent
    \/ LtPingFails
    \/ \E frame \in KeptFrames : \E data \in Payloads(frame) : LtRecv(frame, data)
    \/ \E cause \in DropCauses :
           \E data \in Payloads(IF cause = "pong_failed" THEN "ping" ELSE cause) :
               LtDrop(cause, data)
    \/ \E text \in Texts : LtTextPanics(text)
    \/ LtTimeout
    \/ LtTick

SpecLighter == Init /\ [][LtNext]_vars

\* connect_async completes, with a stream or with an error.
SpecLighterLive == SpecLighter /\ WF_vars(LtConnectOk \/ LtConnectFails)

\* ================================================================ f64 values
\* An f64 is modelled as a finite rational n/d in lowest terms, an infinity
\* with a sign, or NaN.  Rounding is not modelled; the sign of zero is not.
Abs(n) == IF n < 0 THEN -n ELSE n
Sgn(n) == IF n < 0 THEN -1 ELSE 1

RECURSIVE Gcd(_, _)
Gcd(a, b) == IF b = 0 THEN a ELSE Gcd(b, a % b)

Fin(n, d) ==
    LET g == Gcd(Abs(n), d)
    IN  [k |-> "fin", n |-> n \div g, d |-> d \div g]
Inf(sign) == [k |-> "inf", n |-> sign, d |-> 1]
NaN == [k |-> "nan", n |-> 0, d |-> 1]
Zero == Fin(0, 1)

\* a / b on f64
FDiv(a, b) ==
    CASE a.k = "nan" \/ b.k = "nan" -> NaN
      [] a.k = "inf" /\ b.k = "inf" -> NaN
      [] a.k = "inf" /\ b.k = "fin" -> Inf(a.n * Sgn(b.n))
      [] a.k = "fin" /\ b.k = "inf" -> Zero
      [] OTHER ->
            IF b.n = 0
            THEN (IF a.n = 0 THEN NaN ELSE Inf(Sgn(a.n)))
            ELSE Fin(a.n * b.d * Sgn(b.n), a.d * Abs(b.n))

\* a * b on f64
FMul(a, b) ==
    CASE a.k = "nan" \/ b.k = "nan" -> NaN
      [] a.k = "inf" /\ b.k = "inf" -> Inf(a.n * b.n)
      [] a.k = "inf" -> (IF b.n = 0 THEN NaN ELSE Inf(a.n * Sgn(b.n)))
      [] b.k = "inf" -> (IF a.n = 0 THEN NaN ELSE Inf(b.n * Sgn(a.n)))
      [] OTHER -> Fin(a.n * b.n, a.d * b.d)

\* ------------------------------------------------------ str::parse::<f64>
Digits == <<"0", "1", "2", "3", "4", "5", "6", "7", "8", "9">>
IsDigit(c) == \E i \in DOMAIN Digits : Digits[i] = c
DigitVal(c) == (CHOOSE i \in DOMAIN Digits : Digits[i] = c) - 1
Char(s, i) == SubSeq(s, i, i)
AllDigits(s) == \A i \in 1..Len(s) : IsDigit(Char(s, i))

RECURSIVE NatOf(_, _)
NatOf(s, acc) ==
    IF Len(s) = 0 THEN acc ELSE NatOf(Tail(s), acc * 10 + DigitVal(Char(s, 1)))

RECURSIVE Pow10(_)
Pow10(k) == IF k = 0 THEN 1 ELSE 10 * Pow10(k - 1)

\* ASCII lower case of the letters the special values are spelled with.
Lower(c) ==
    CASE c = "N" -> "n" [] c = "A" -> "a" [] c = "I" -> "i" [] c = "F" -> "f"
      [] c = "T" -> "t" [] c = "Y" -> "y" [] OTHER -> c
RECURSIVE LowerCase(_)
LowerCase(s) == IF Len(s) = 0 THEN "" ELSE Lower(Char(s, 1)) \o LowerCase(Tail(s))

\* The unsigned part of a number: digits with an optional point, at least one
\* digit.  (Exponent forms are not among the inputs of the model.)
IsDecimal(s) ==
    LET dots == { i \in 1..Len(s) : Char(s, i) = "." }
    IN  IF dots = {} THEN Len(s) > 0 /\ AllDigits(s)
        ELSE LET p == CHOOSE i \in dots : \A j \in dots : i <= j
             IN  /\ Len(s) > 1
                 /\ AllDigits(SubSeq(s, 1, p - 1))
                 /\ AllDigits(SubSeq(s, p + 1, Len(s)))
DecimalOf(s) ==
    LET dots == { i \in 1..Len(s) : Char(s, i) = "." }
    IN  IF dots = {} THEN Fin(NatOf(s, 0), 1)
        ELSE LET p == CHOOSE i \in dots : TRUE
                 frac == SubSeq(s, p + 1, Len(s))
             IN  Fin(NatOf(SubSeq(s, 1, p - 1) \o frac, 0), Pow10(Len(frac)))

ParseErr == [ok |-> FALSE, v |-> Zero]
ParseOk(v) == [ok |-> TRUE, v |-> v]

\* <f64 as FromStr>::from_str: an optional sign, then a decimal number or,
\* in any letter case, "inf", "infinity" or "nan"; anything else is Err.
parse_f64(s) ==
    LET neg  == Len(s) > 0 /\ Char(s, 1) = "-"
        body == IF Len(s) > 0 /\ Char(s, 1) \in {"-", "+"} THEN Tail(s) ELSE s
        sign == IF neg THEN -1 ELSE 1
    IN  CASE LowerCase(body) = "nan" -> ParseOk(NaN)
          [] LowerCase(body) \in {"inf", "infinity"} -> ParseOk(Inf(sign))
          [] IsDecimal(body) ->
                LET v == DecimalOf(body) IN ParseOk([v EXCEPT !.n = sign * v.n])
          [] OTHER -> ParseErr

\* Result::unwrap_or(default)
unwrap_or(r, default) == IF r.ok THEN r.v ELSE default

\* ============================================== coin_list_metadate_lighter
\* The entries a funding_rates array is made of: the endpoint lists a market
\* once per exchange that quotes it, so a market_id can occur more than once.
FundingRates == { FR(0, "ETH"), FR(1, "BTC"), FR(1, "WBTC") }

RECURSIVE SeqsUpTo(_, _)
SeqsUpTo(S, n) ==
    IF n = 0 THEN { <<>> }
    ELSE LET shorter == SeqsUpTo(S, n - 1)
         IN  shorter \cup { Append(q, x) : q \in shorter, x \in S }

\* The funding_rates arrays of at most MaxListing entries.
RawListings == SeqsUpTo(FundingRates, MaxListing)

InitListing ==
    /\ MgrInit
    /\ LtIdle
    /\ FeedIdle
    /\ TableIdle
    /\ listing_in \in RawListings
    /\ listing_out = <<>>

\* Lines 22-24 of coin_list_metadate_lighter run on the array of the response,
\* then once more on the listing they returned.
Normalise ==
    /\ Len(listing_out) < 2
    /\ listing_out' = Append(listing_out,
                             coin_list_metadate_lighter(
                                 IF listing_out = <<>> THEN listing_in
                                 ELSE listing_out[Len(listing_out)]))
    /\ UNCHANGED listing_in
    /\ UNCHANGED <<mgr_vars, lt_vars, fd_vars, tb_vars>>

SpecListing == InitListing /\ [][Normalise]_vars

\* ========================================================== message handling
Range(q) == { q[i] : i \in DOMAIN q }

\* `(symbol, funding, oi, price, exchange)`, the tuple sent on tx
AssetUpdate(symbol, funding, oi, price, exchange) ==
    [symbol |-> symbol, funding |-> funding, oi |-> oi, price |-> price,
     exchange |-> exchange]

handle_hyperliquid_message_any_ctx(active_ctx, exchange) ==
    << AssetUpdate(active_ctx.coin,
                   unwrap_or(parse_f64(active_ctx.funding), Zero),
                   unwrap_or(parse_f64(active_ctx.open_interest), Zero),
                   unwrap_or(parse_f64(active_ctx.oracle_px), Zero),
                   exchange) >>

\* handle_hyperliquid_message: the updates it sends for one ActiveAssetCtx
\* message: one for a perpetuals context, none for a spot context.
handle_hyperliquid_message(active_ctx, exchange) ==
    IF active_ctx.ctx = "Perps"
    THEN << AssetUpdate(active_ctx.coin,
                        unwrap_or(parse_f64(active_ctx.funding), Zero),
                        unwrap_or(parse_f64(active_ctx.open_interest), Zero),
                        unwrap_or(parse_f64(active_ctx.oracle_px), Zero),
                        exchange) >>
    ELSE <<>>

\* `stats.market_id as u8`: the low 8 bits of the u64
AsU8(n) == n % 256

\* `market_map.get(&(stats.market_id as u8)).cloned().unwrap_or_else(|| format!(..))`
ResolveSymbol(market_map, market_id) ==
    IF AsU8(market_id) \in DOMAIN market_map
    THEN market_map[AsU8(market_id)]
    ELSE "UNKNOWN_" \o ToString(market_id)

LighterUpdateNotDoubled(stats, exchange, market_map) ==
    LET price == unwrap_or(parse_f64(stats.mark_price), Zero)
    IN  AssetUpdate(ResolveSymbol(market_map, stats.market_id),
                    unwrap_or(parse_f64(stats.current_funding_rate), Zero),
                    FDiv(unwrap_or(parse_f64(stats.open_interest), Zero), price),
                    price, exchange)

\* The body of the loop of handle_lighter_message for one entry.
LighterUpdate(stats, exchange, market_map) ==
    LET symbol  == ResolveSymbol(market_map, stats.market_id)
        funding == unwrap_or(parse_f64(stats.current_funding_rate), Zero)
        price   == unwrap_or(parse_f64(stats.mark_price), Zero)
        oi      == FMul(FDiv(unwrap_or(parse_f64(stats.open_interest), Zero), price),
                        Fin(2, 1))
    IN  AssetUpdate(symbol, funding, oi, price, exchange)

handle_lighter_message_resolved_only(market_stats, exchange, market_map) ==
    LET listed == SelectSeq(market_stats,
                            LAMBDA stats : AsU8(stats.market_id) \in DOMAIN market_map)
    IN  [i \in DOMAIN listed |-> LighterUpdate(listed[i], exchange, market_map)]

\* handle_lighter_message: one update per entry of parsed.market_stats, in
\* the order the HashMap iterates (market_stats is given in that order).
handle_lighter_message(market_stats, exchange, market_map) ==
    [i \in DOMAIN market_stats |-> LighterUpdate(market_stats[i], exchange, market_map)]

\* The match of hyperliquid_websocket's receive loop: the ActiveAssetCtx arm
\* calls handle_hyperliquid_message, the `_` arm does nothing.
match_message(message, exchange) ==
    IF message.msg = "ActiveAssetCtx"
    THEN handle_hyperliquid_message(message.active_ctx, exchange)
    ELSE <<>>

\* ------------------------------------------------------------ wire inputs
\* Numeric strings that parse to an ordinary number, and malformed ones.
WellFormed == [funding |-> "0.0005", open_interest |-> "1000", price |-> "50",
               open_interest_limit |-> "2000"]
Malformed == {"", "NaN", "abc"}
OddNumbers == Malformed \cup {"0"}

\* ActiveAssetCtx messages for the subscribed coins: well-formed ones for
\* every coin, a spot context, and for the first coin every message with one
\* odd field.
HlCtx(coin, ctx, funding, open_interest, oracle_px) ==
    [coin |-> coin, ctx |-> ctx, funding |-> funding, open_interest |-> open_interest,
     oracle_px |-> oracle_px]
HlMessages(coins) ==
    { HlCtx(c, "Perps", WellFormed.funding, WellFormed.open_interest, WellFormed.price)
        : c \in Range(coins) }
    \cup { HlCtx(coins[1], "Spot", "", "", "") }
    \cup { HlCtx(coins[1], "Perps", x, WellFormed.open_interest, WellFormed.price)
             : x \in OddNumbers }
    \cup { HlCtx(coins[1], "Perps", WellFormed.funding, x, WellFormed.price)
             : x \in OddNumbers }
    \cup { HlCtx(coins[1], "Perps", WellFormed.funding, WellFormed.open_interest, x)
             : x \in OddNumbers }

\* The messages the SDK puts on the inner channel: the ActiveAssetCtx ones,
\* and messages of other variants of its Message enum.
OtherMessages == {"SubscriptionResponse", "NoData"}
NoCtx == HlCtx("", "none", "", "", "")
HlInbound(coins) ==
    { [msg |-> "ActiveAssetCtx", active_ctx |-> c] : c \in HlMessages(coins) }
    \cup { [msg |-> m, active_ctx |-> NoCtx] : m \in OtherMessages }

\* market_id values of market-statistics entries (u64): listed markets, an
\* unlisted one, and one above the u8 range.
StatIds == {0, 1, 2, 257}

Stat(market_id, funding, mark_price, open_interest, open_interest_limit) ==
    [market_id |-> market_id, current_funding_rate |-> funding, mark_price |-> mark_price,
     open_interest |-> open_interest, open_interest_limit |-> open_interest_limit]
PlainStat(id) ==
    Stat(id, WellFormed.funding, WellFormed.price, WellFormed.open_interest,
         WellFormed.open_interest_limit)
\* Entries: well-formed ones for every id and, for market 1, every entry with
\* one odd field.
LtEntries ==
    { PlainStat(id) : id \in StatIds }
    \cup { [PlainStat(1) EXCEPT !.current_funding_rate = x] : x \in OddNumbers }
    \cup { [PlainStat(1) EXCEPT !.mark_price = x] : x \in OddNumbers }
    \cup { [PlainStat(1) EXCEPT !.open_interest = x] : x \in OddNumbers }
    \cup { [PlainStat(1) EXCEPT !.open_interest_limit = x] : x \in OddNumbers }
\* market_stats maps of one entry, and of two well-formed entries in either
\* iteration order.
LtBatches ==
    { <<e>> : e \in LtEntries }
    \cup { << PlainStat(a), PlainStat(b) >> : a \in {0, 257}, b \in {1} }
    \cup { << PlainStat(a), PlainStat(b) >> : a \in {1}, b \in {0, 257} }

\* ------------------------------------------------------------ the adapters
\* The adapter function of the given kind that create_batch_websocket_task
\* runs for fd_exchange, with the exchange value it is handed.
FeedKinds == { a.kind : a \in Range(AdaptersOf(fd_exchange)) }
FeedAdapter(kind) == CHOOSE a \in Range(AdaptersOf(fd_exchange)) : a.kind = kind

InitFeed ==
    /\ MgrInit
    /\ LtIdle
    /\ ListingIdle
    /\ TableIdle
    /\ fd_exchange \in ExchangeIds
    /\ fd_coins \in fetch_coin_list(fd_exchange)
    /\ fd_status = [k \in Kinds |-> IF k \in FeedKinds THEN "starting" ELSE "off"]
    /\ fd_market_map = <<>>
    /\ fd_tx = <<>>
    /\ fd_sent = [k \in Kinds |-> 0]
    /\ fd_seen = [k \in Kinds |-> 0]
    /\ fd_msgs = 0
    /\ fd_taken = [k \in Kinds |-> 0]
    /\ fd_subs = <<>>
    /\ fd_senders = {}

ChannelSendFront(q, msgs) == msgs \o q
\* UnboundedSender::send, once per item: each goes to the tail of the channel.
ChannelSend(q, msgs) == q \o msgs

\* The updates as they travel on the channel, with a record of the adapter
\* function that sent each, its number among that adapter's updates, and the
\* wire data it was made from.
Stamp(updates, kind, srcs) ==
    [i \in DOMAIN updates |->
        [update |-> updates[i], from |-> kind, seq |-> fd_sent[kind] + i, src |-> srcs[i]]]

\* InfoClient::new returned the client and the inner channel was created:
\* the function holds sender_channel until it returns.
FdHlClient ==
    /\ fd_status["hl"] = "starting"
    /\ fd_senders = {}
    /\ fd_senders' = {"adapter"}
    /\ UNCHANGED <<fd_exchange, fd_coins, fd_status, fd_market_map, fd_tx, fd_sent, fd_seen,
                   fd_msgs, fd_taken, fd_subs>>
    /\ UNCHANGED <<mgr_vars, lt_vars, nl_vars, tb_vars>>

NextCoinFirst(subs, coins) == coins[1]
\* `for coin in coins.iter()`: the coin of the next iteration.
NextCoin(subs, coins) == coins[Len(subs) + 1]

\* One iteration of the subscribe loop: client.subscribe(ActiveAssetCtx
\* { coin }, sender_channel.clone()) on the one client of the function.
FdHlSubscribe ==
    /\ fd_status["hl"] = "starting"
    /\ "adapter" \in fd_senders
    /\ Len(fd_subs) < Len(fd_coins)
    /\ fd_subs' = Append(fd_subs, [subscription |-> "ActiveAssetCtx",
                                   coin |-> NextCoin(fd_subs, fd_coins),
                                   client |-> "client"])
    /\ fd_senders' = fd_senders \cup {"sdk"}
    /\ UNCHANGED <<fd_exchange, fd_coins, fd_status, fd_market_map, fd_tx, fd_sent, fd_seen,
                   fd_msgs, fd_taken>>
    /\ UNCHANGED <<mgr_vars, lt_vars, nl_vars, tb_vars>>

\* InfoClient::new or client.subscribe returned Err: `expect` panics.
FdHlPanics ==
    /\ fd_status["hl"] = "starting"
    /\ Len(fd_subs) < Len(fd_coins)
    /\ fd_status' = [fd_status EXCEPT !["hl"] = "panicked"]
    /\ fd_senders' = {}
    /\ UNCHANGED <<fd_exchange, fd_coins, fd_market_map, fd_tx, fd_sent, fd_seen, fd_msgs,
                   fd_taken, fd_subs>>
    /\ UNCHANGED <<mgr_vars, lt_vars, nl_vars, tb_vars>>

\* hyperliquid_websocket: every coin is subscribed, the receive loop is entered.
FdHlReady ==
    /\ fd_status["hl"] = "starting"
    /\ "adapter" \in fd_senders
    /\ Len(fd_subs) = Len(fd_coins)
    /\ fd_status' = [fd_status EXCEPT !["hl"] = "running"]
    /\ UNCHANGED <<fd_exchange, fd_coins, fd_market_map, fd_tx, fd_sent, fd_seen, fd_msgs,
                   fd_taken, fd_subs, fd_senders>>
    /\ UNCHANGED <<mgr_vars, lt_vars, nl_vars, tb_vars>>

\* lighter_websocket: the listing is fetched and market_map built.
FdLtListing(raw) ==
    /\ fd_status["lt"] = "starting"
    /\ fd_status' = [fd_status EXCEPT !["lt"] = "running"]
    /\ fd_market_map' = BuildMarketMap(coin_list_metadate_lighter(raw))
    /\ UNCHANGED <<fd_exchange, fd_coins, fd_tx, fd_sent, fd_seen, fd_msgs, fd_taken,
                   fd_subs, fd_senders>>
    /\ UNCHANGED <<mgr_vars, lt_vars, nl_vars, tb_vars>>

\* hyperliquid_websocket's receive loop takes one message the SDK sent on
\* the inner channel.
FdHlMessage(message) ==
    /\ fd_status["hl"] = "running"
    /\ "sdk" \in fd_senders
    /\ fd_msgs < MaxMsgs
    /\ LET updates == match_message(message, FeedAdapter("hl").tag)
       IN  /\ fd_tx' = ChannelSend(fd_tx, Stamp(updates, "hl", <<message.active_ctx>>))
           /\ fd_sent' = [fd_sent EXCEPT !["hl"] = @ + Len(updates)]
    /\ fd_msgs' = fd_msgs + 1
    /\ fd_taken' = [fd_taken EXCEPT !["hl"] =
                        IF message.msg = "ActiveAssetCtx" /\ message.active_ctx.ctx = "Perps"
                        THEN @ + 1 ELSE @]
    /\ UNCHANGED <<fd_exchange, fd_coins, fd_status, fd_market_map, fd_seen, fd_subs,
                   fd_senders>>
    /\ UNCHANGED <<mgr_vars, lt_vars, nl_vars, tb_vars>>

\* receiver_channel.recv() yields None when the channel is empty and no
\* Sender of it is left.
RecvEnds(senders) == senders = {}

\* The SDK's connection has terminated and its client has dropped the Senders
\* it was given; the receive loop, with nothing left to take, is in recv().
FdHlStreamEnds ==
    /\ fd_status["hl"] = "running"
    /\ "sdk" \in fd_senders
    /\ fd_senders' = fd_senders \ {"sdk"}
    /\ fd_status' = [fd_status EXCEPT !["hl"] =
                        IF RecvEnds(fd_senders') THEN "returned" ELSE "running"]
    /\ UNCHANGED <<fd_exchange, fd_coins, fd_market_map, fd_tx, fd_sent, fd_seen, fd_msgs,
                   fd_taken, fd_subs>>
    /\ UNCHANGED <<mgr_vars, lt_vars, nl_vars, tb_vars>>

\* lighter_websocket's receive loop takes one text frame that parses as a
\* MarketStatsMessage.
FdLtMessage(market_stats) ==
    /\ fd_status["lt"] = "running"
    /\ fd_msgs < MaxMsgs
    /\ LET updates == handle_lighter_message(market_stats, FeedAdapter("lt").tag,
                                             fd_market_map)
       IN  /\ fd_tx' = ChannelSend(fd_tx, Stamp(updates, "lt", market_stats))
           /\ fd_sent' = [fd_sent EXCEPT !["lt"] = @ + Len(updates)]
    /\ fd_msgs' = fd_msgs + 1
    /\ fd_taken' = [fd_taken EXCEPT !["lt"] = @ + Len(market_stats)]
    /\ UNCHANGED <<fd_exchange, fd_coins, fd_status, fd_market_map, fd_seen, fd_subs,
                   fd_senders>>
    /\ UNCHANGED <<mgr_vars, lt_vars, nl_vars, tb_vars>>

\* TuiApp::run: rx.try_recv() takes the update at the head of the channel.
FdTryRecv ==
    /\ fd_tx # <<>>
    /\ fd_seen' = [fd_seen EXCEPT ![Head(fd_tx).from] = Head(fd_tx).seq]
    /\ fd_tx' = Tail(fd_tx)
    /\ UNCHANGED <<fd_exchange, fd_coins, fd_status, fd_market_map, fd_sent, fd_msgs,
                   fd_taken, fd_subs, fd_senders>>
    /\ UNCHANGED <<mgr_vars, lt_vars, nl_vars, tb_vars>>

FeedNext ==
    \/ FdHlClient
    \/ FdHlSubscribe
    \/ FdHlPanics
    \/ FdHlReady
    \/ \E raw \in LighterListings : FdLtListing(raw)
    \/ \E message \in HlInbound(fd_coins) : FdHlMessage(message)
    \/ FdHlStreamEnds
    \/ \E market_stats \in LtBatches : FdLtMessage(market_stats)
    \/ FdTryRecv

SpecFeed == InitFeed /\ [][FeedNext]_vars

\* ================================================================ the consumer
\* TuiApp of ui/app.rs: the table built from the initial universe and the
\* drain loop of TuiApp::run.  Its run takes (coin, funding, oi, price): the
\* exchange element of an update is not looked at.  The order of the rows
\* (sort_collumn) is not modelled: rows are found by coin name.

\* Updates in flight to the consumer at any time are followed up to this many.
MaxUpdates == 2

\* CoinData::new
CoinDataNew(coin) ==
    [coin |-> coin, funding |-> Zero, open_interest |-> Zero, oracle_price |-> Zero]

CoinDataUpdateKeepsFunding(c, funding, open_interest, oracle_price) ==
    [c EXCEPT !.open_interest = open_interest, !.oracle_price = oracle_price]
\* CoinData::update
CoinDataUpdate(c, funding, open_interest, oracle_price) ==
    [c EXCEPT !.funding = funding, !.open_interest = open_interest,
              !.oracle_price = oracle_price]

\* TuiApp::new: one row per coin, in the order of the list.
TuiAppNew(coins) == [i \in DOMAIN coins |-> CoinDataNew(coins[i])]

update_coin_or_insert(rows, coin, funding, open_interest, oracle_price) ==
    IF \E i \in DOMAIN rows : rows[i].coin = coin
    THEN [i \in DOMAIN rows |->
             IF rows[i].coin = coin
             THEN CoinDataUpdate(rows[i], funding, open_interest, oracle_price)
             ELSE rows[i]]
    ELSE Append(rows, CoinDataUpdate(CoinDataNew(coin), funding, open_interest,
                                     oracle_price))
\* TuiApp::update_coin: the first row whose coin is the update's is updated;
\* without such a row nothing happens.
update_coin(rows, coin, funding, open_interest, oracle_price) ==
    IF \E i \in DOMAIN rows : rows[i].coin = coin
    THEN LET first == CHOOSE i \in DOMAIN rows :
                          /\ rows[i].coin = coin
                          /\ \A j \in DOMAIN rows : rows[j].coin = coin => i <= j
         IN  [rows EXCEPT ![first] = CoinDataUpdate(rows[first], funding, open_interest,
                                                    oracle_price)]
    ELSE rows

\* The updates the adapters of a selection send: those of
\* handle_hyperliquid_message for a well-formed context of every coin and for
\* one with an odd funding, those of handle_lighter_message for a well-formed
\* entry of every market id under either market map; each with the adapter
\* function that sends it.
TableUpdates(coins) ==
    UNION { UNION {
        IF a.kind = "hl"
        THEN { [from |-> "hl", update |-> handle_hyperliquid_message(m, a.tag)[1]]
                 : m \in { HlCtx(c, "Perps", WellFormed.funding, WellFormed.open_interest,
                                 WellFormed.price) : c \in Range(coins) }
                        \cup { HlCtx(coins[1], "Perps", "NaN", WellFormed.open_interest,
                                     WellFormed.price) } }
        ELSE { [from |-> "lt",
                update |-> LighterUpdate(PlainStat(id), a.tag,
                                         BuildMarketMap(coin_list_metadate_lighter(raw)))]
                 : id \in StatIds, raw \in LighterListings }
        : a \in Range(AdaptersOf(e)) } : e \in 1..3 }

\* The table is built from the universe of the initial selection.
InitTable ==
    /\ MgrInit
    /\ LtIdle
    /\ ListingIdle
    /\ FeedIdle
    /\ items \in { TuiAppNew(coins) : coins \in fetch_coin_list(InitialExchange) }
    /\ tb_rx = <<>>
    /\ tb_emitted = <<>>

\* An adapter function sends an update: tx.send.
TbSend(m) ==
    /\ Len(tb_emitted) < MaxUpdates
    /\ tb_rx' = ChannelSend(tb_rx, <<m>>)
    /\ tb_emitted' = Append(tb_emitted, m)
    /\ UNCHANGED items
    /\ UNCHANGED <<mgr_vars, lt_vars, nl_vars, fd_vars>>

\* One iteration of the drain loop of TuiApp::run: rx.try_recv() returned an
\* update and update_coin is called with it.
TbTryRecv ==
    /\ tb_rx # <<>>
    /\ LET u == Head(tb_rx).update
       IN  items' = update_coin(items, u.symbol, u.funding, u.oi, u.price)
    /\ tb_rx' = Tail(tb_rx)
    /\ UNCHANGED tb_emitted
    /\ UNCHANGED <<mgr_vars, lt_vars, nl_vars, fd_vars>>

TableNext ==
    \/ \E m \in TableUpdates([i \in DOMAIN items |-> items[i].coin]) : TbSend(m)
    \/ TbTryRecv

SpecTable == InitTable /\ [][TableNext]_vars

\* =================================================================== claims
Last(s) == s[Len(s)]

\* The latest generation of adapter tasks was started for exchange e.
StartedFor(e) ==
    /\ TasksOf(gen) # {}
    /\ \A i \in TasksOf(gen) : adapters[i].sel = e

\* No adapter task of an earlier generation is still running.
NoOldLive == \A i \in Live : adapters[i].gen = gen

\* C1: once a switch has been handled (the orchestrator is back in its select!),
\* no update on the outbound channel was sent by an adapter started for an
\* earlier selection; an update sent while selection 2 is current carries tag 2.
C1_NoCrossExchangeLeak ==
    \A k \in DOMAIN rx :
        rx[k].settled => /\ ~rx[k].stale
                         /\ rx[k].at_sel = 2 => rx[k].tag = 2

\* C2: all running adapter tasks belong to one selection (one generation):
\* the tasks of the previous selection have ended when the new ones start.
C2_StopBeforeStart ==
    \A i, j \in Live : adapters[i].gen = adapters[j].gen

\* C3: in the composite selection 3 an update of the Hyperliquid adapter is
\* tagged 1 and an update of the Lighter adapter is tagged 2, never 3.
C3_TrueOriginTag ==
    \A k \in DOMAIN rx :
        rx[k].sel = 3 => rx[k].tag = (IF rx[k].kind = "hl" THEN 1 ELSE 2)

\* C4: after a switch whose universe fetch failed, the selection, the
\* universe, the JoinSet and the universe channel are what they were when
\* the command was received.
C4_FailedFetchKeepsState ==
    (handled # <<>> /\ Last(handled).outcome = "fetch_failed")
        => /\ last_exchange = before.sel
           /\ current_coins = before.coins
           /\ join_set = before.join_set
           /\ Len(coin_list_rx) = before.published

\* C5: a universe-fetch failure does not end the command loop: the
\* ws_manager task is still running after it.
C5_FetchFailureNotFatal ==
    (\E k \in DOMAIN handled : handled[k].outcome = "fetch_failed")
        => mgr_pc \in {"recv", "fetch", "drain"}

\* C6: receiving a selection equal to the current one starts no fetch,
\* publishes nothing, aborts and starts nothing, and leaves the selection and
\* the universe as they are.
C6_SameSelectionNoOp ==
    [][ ( /\ mgr_pc = "recv"
          /\ exchange_rx # <<>>
          /\ exchange_rx' = Tail(exchange_rx)
          /\ Head(exchange_rx) = last_exchange )
        => ( /\ mgr_pc' = "recv"
             /\ UNCHANGED <<last_exchange, current_coins, coin_list_rx, join_set, gen,
                            adapters>> ) ]_vars

C6_Witness ==
    /\ mgr_pc = "recv"
    /\ Len(handled) = 2
    /\ handled[1].outcome = "switched"
    /\ handled[2].outcome = "noop"
    /\ handled[2].cmd = last_exchange
    /\ Len(coin_list_rx) = 1

\* C7: the new universe is published only after the old adapters were
\* cancelled and drained and the new adapter(s) started: at the step that
\* sends on coin_list_tx the latest adapter generation is the one of the new
\* exchange and no adapter of an older generation is running.
C7_PublishAfterStart ==
    [][ coin_list_rx' # coin_list_rx => (StartedFor(new_exchange) /\ NoOldLive) ]_vars

\* C8: the lists sent on coin_list_tx are, in order, exactly the lists fetched
\* by the commands that named another exchange than the current one and whose
\* fetch succeeded: nothing for the initial start, a no-op or a failed switch.
RECURSIVE SwitchUniverses(_)
SwitchUniverses(h) ==
    IF h = <<>> THEN <<>>
    ELSE (IF Head(h).cmd # Head(h).prev /\ Head(h).outcome # "fetch_failed"
          THEN <<Head(h).coins>> ELSE <<>>) \o SwitchUniverses(Tail(h))

C8_OneUniversePerSwitch == coin_list_rx = SwitchUniverses(handled)

C8_Witness ==
    /\ Len(coin_list_rx) = 2
    /\ coin_list_rx[1] # coin_list_rx[2]
    /\ mgr_pc = "recv"

\* The k-th delay of the backoff sequence 1, 2, 4, 8, 16, 32, 60, 60, ...
BackoffSeq(k) == Min(2 ^ (k - 1), MaxReconnectDelaySecs)

ConnectSleeps == SelectSeq(lt_sleeps, LAMBDA e : e.why = "connect")

\* C9 (as stated): the k-th consecutive failed connection attempt since start
\* or since the last successful connection sleeps BackoffSeq(k) seconds.
C9_ConnectFailureSleeps ==
    \A k \in DOMAIN ConnectSleeps : ConnectSleeps[k].d = BackoffSeq(k)

\* C9 (amended): the k-th sleep since start or since the last successful
\* connection, the sleep after the loss of that connection or after a failed
\* subscribe send included, lasts BackoffSeq(k) seconds; after a successful
\* connection the delay is 1 s.
C9_BackoffSequence ==
    /\ \A k \in DOMAIN lt_sleeps : lt_sleeps[k].d = BackoffSeq(k)
    /\ lt_pc \in {"subscribe", "streaming"} => reconnect_delay = InitialReconnectDelaySecs

C9_Witness ==
    /\ Len(lt_sleeps) = 8
    /\ lt_sleeps[1].why = "stream"
    /\ lt_sleeps[6].d = 32
    /\ lt_sleeps[7].d = 60
    /\ lt_sleeps[8].d = 60

\* C10: in the receive loop, once 60 s have passed without an inbound frame
\* the read timeout is due (the connection is given up), whether or not a
\* ping tick fell into those 60 s.
C10_SilenceTimesOut ==
    (lt_pc = "streaming" /\ lt_silent >= ReadTimeoutSecs) => lt_idle >= ReadTimeoutSecs

\* C11: a started lighter_websocket task that is not cancelled never ends on
\* its own: whatever fails (the listing fetch, connect, the subscribe send, the
\* receive, a ping or pong send, a close frame, the stream end, the timeout),
\* the function has not returned.
C11_EndsOnlyOnCancel == lt_pc # "failed"

\* The synthetic symbol of an unresolved market id.
IsPlaceholder(symbol) == Len(symbol) > 8 /\ SubSeq(symbol, 1, 8) = "UNKNOWN_"

\* C12: the symbol of every update on the outbound channel is a member of
\* the universe the adapters were started with, or an UNKNOWN_<id>
\* placeholder, whatever the selection.
C12_SymbolInUniverse ==
    \A k \in DOMAIN fd_tx :
        \/ fd_tx[k].update.symbol \in Range(fd_coins)
        \/ IsPlaceholder(fd_tx[k].update.symbol)

\* C13: the symbol of an update made from a market-statistics entry is the
\* market map's symbol for exactly the entry's 64-bit market id when the map
\* has that id, and "UNKNOWN_<id>" otherwise.
C13_SymbolOfExactId ==
    \A k \in DOMAIN fd_tx :
        fd_tx[k].from = "lt"
            => fd_tx[k].update.symbol =
                   (IF fd_tx[k].src.market_id \in DOMAIN fd_market_map
                    THEN fd_market_map[fd_tx[k].src.market_id]
                    ELSE "UNKNOWN_" \o ToString(fd_tx[k].src.market_id))

\* C14: the normalisation of the funding-rate listing is idempotent: run on
\* its own output it returns that output, for every input listing.
C14_NormaliseIdempotent ==
    Len(listing_out) = 2 => listing_out[2] = listing_out[1]

\* C17: a Ping frame the adapter has read is answered, before the next
\* inbound frame is handled, with exactly one Pong that carries the Ping's
\* payload; when that Pong cannot be sent the connection is given up and the
\* adapter reconnects.
C17_PingAnsweredOnce ==
    lt_last.frame = "ping"
        => \/ lt_last.wrote = << [op |-> "pong", data |-> lt_last.data] >>
           \/ lt_last.wrote = <<>> /\ lt_pc \in {"connect", "subscribe"}

C17_Witness ==
    /\ lt_pc = "streaming"
    /\ lt_last.frame = "ping"
    /\ lt_last.data = <<7>>
    /\ Len(lt_last.wrote) = 1

\* C19: a selection outside {1, 2, 3} is served as Hyperliquid: the universe
\* fetched for it is a Hyperliquid listing, the one adapter task started for
\* it runs hyperliquid_websocket on that universe, and every update of that
\* task is tagged 1.
C19_UnknownIsHyperliquid ==
    /\ \A k \in DOMAIN handled :
           (handled[k].cmd \notin 1..3 /\ handled[k].outcome = "switched")
               => handled[k].coins \in HyperliquidListings
    /\ \A i \in DOMAIN adapters :
           adapters[i].sel \notin 1..3
               => /\ adapters[i].kind = "hl"
                  /\ adapters[i].tag = 1
                  /\ adapters[i].coins \in HyperliquidListings
                  /\ TasksOf(adapters[i].gen) = {i}
    /\ \A k \in DOMAIN rx :
           rx[k].sel \notin 1..3 => (rx[k].kind = "hl" /\ rx[k].tag = 1)

C19_Witness ==
    /\ last_exchange = 0
    /\ mgr_pc = "recv"
    /\ \E k \in DOMAIN rx : rx[k].sel = 0 /\ ~rx[k].stale

\* Adapter task i ends at this step.
EndsNow(i) ==
    /\ adapters[i].status \in {"starting", "running"}
    /\ adapters'[i].status \in {"panic", "err"}

\* C20: the failure of one adapter task ends nothing else.  At the step at
\* which an adapter task returns an error or panics, and at the step at which
\* the orchestrator joins the ended task, the orchestrator stays in its
\* select! loop and every other adapter task is as it was.
C20_AdapterFailureIsolated ==
    [][ /\ \A i \in DOMAIN adapters :
              EndsNow(i) => /\ mgr_pc' = mgr_pc
                            /\ \A j \in DOMAIN adapters \ {i} : adapters'[j] = adapters[j]
        /\ (mgr_pc = "recv" /\ join_set' # join_set /\ gen' = gen)
              => (mgr_pc' = "recv" /\ adapters' = adapters) ]_vars

\* In the composite selection one adapter task has panicked and its wrapper
\* was joined; after that the orchestrator has received and carried out a
\* further command, and the other adapter task of the composite selection
\* has sent an update.
C20_Witness ==
    /\ mgr_pc = "recv"
    /\ Len(handled) = 2
    /\ handled[2].prev = 3
    /\ handled[2].outcome = "switched"
    /\ before.join_set = {}
    /\ \E i, j \in DOMAIN adapters :
           /\ adapters[i].sel = 3 /\ adapters[j].sel = 3
           /\ adapters[i].status = "panic"
           /\ adapters[j].status = "running"
           /\ \E k \in DOMAIN rx :
                  /\ rx[k].kind = adapters[j].kind
                  /\ rx[k].sel = 3
                  /\ rx[k].at_sel = handled[2].cmd
                  /\ rx[k].settled

\* The value a numeric wire field must give: 0.0 when the string is malformed.
ZeroIfMalformed(str, value) == str \in Malformed => value = Zero

\* C15: for both adapters a malformed numeric string ("NaN", the empty
\* string, ...) gives 0.0 for its field of the update (for Lighter's open
\* interest: 0.0 as the numerator of the formula), and the adapter that
\* handled it is still running.
C15_MalformedIsZero ==
    \A k \in DOMAIN fd_tx :
        LET u == fd_tx[k].update
            w == fd_tx[k].src
        IN  /\ fd_status[fd_tx[k].from] = "running"
            /\ IF fd_tx[k].from = "hl"
               THEN /\ ZeroIfMalformed(w.funding, u.funding)
                    /\ ZeroIfMalformed(w.open_interest, u.oi)
                    /\ ZeroIfMalformed(w.oracle_px, u.price)
               ELSE /\ ZeroIfMalformed(w.current_funding_rate, u.funding)
                    /\ ZeroIfMalformed(w.mark_price, u.price)
                    /\ ZeroIfMalformed(w.open_interest,
                                       FMul(u.oi, FDiv(u.price, Fin(2, 1))))

\* The parsed value of a wire field, 0.0 when it does not parse.
Parsed(str) == unwrap_or(parse_f64(str), Zero)

\* oi = field / price * 2, for finite values and a price other than zero,
\* stated without division: oi * price = 2 * field.
IsFormulaOf(oi, field, price) ==
    IF field.k = "fin" /\ price.k = "fin" /\ price.n # 0
    THEN /\ oi.k = "fin"
         /\ oi.n * price.n * field.d = 2 * field.n * oi.d * price.d
    ELSE oi.k # "fin"

SeqsOn(kind) ==
    LET mine == SelectSeq(fd_tx, LAMBDA item : item.from = kind)
    IN  [i \in DOMAIN mine |-> mine[i].seq]

\* C18: the updates of one adapter are on the outbound channel, and reach the
\* consumer, in the order in which that adapter sent them: the channel holds
\* of each adapter exactly its updates not yet received, oldest first.
C18_EmissionOrderKept ==
    \A kind \in Kinds :
        SeqsOn(kind) = [i \in 1..(fd_sent[kind] - fd_seen[kind]) |-> fd_seen[kind] + i]

\* Composite selection: one update of the Lighter adapter was received, its
\* next one and an update of the Hyperliquid adapter are on the channel.
C18_Witness ==
    /\ fd_exchange = 3
    /\ fd_seen["lt"] = 1
    /\ fd_sent["lt"] = 2
    /\ \E i, j \in DOMAIN fd_tx : fd_tx[i].from = "lt" /\ fd_tx[j].from = "hl"

\* The first entry of the response's array that has the given market id: the
\* first occurrence of the id in the stably sorted array.
FirstOf(id) ==
    listing_in[CHOOSE i \in DOMAIN listing_in :
                   /\ listing_in[i].market_id = id
                   /\ \A j \in DOMAIN listing_in : listing_in[j].market_id = id => i <= j]

\* C21: the normalised listing has the ids of the response in strictly
\* ascending order, one entry each, the entry kept for an id is the first of
\* that id in the response, and the market map built from the listing maps
\* the id to that entry's symbol.
C21_OnePerIdFirstKept ==
    Len(listing_out) >= 1 =>
        LET out == listing_out[1]
        IN  /\ \A i, j \in DOMAIN out : i < j => out[i].market_id < out[j].market_id
            /\ { out[i].market_id : i \in DOMAIN out }
                  = { listing_in[i].market_id : i \in DOMAIN listing_in }
            /\ \A i \in DOMAIN out : out[i] = FirstOf(out[i].market_id)
            /\ \A i \in DOMAIN out :
                   BuildMarketMap(out)[out[i].market_id] = FirstOf(out[i].market_id).symbol

\* C22: a failed subscribe send is handled like a failed connection attempt:
\* the adapter sleeps the current delay, doubles the delay up to 60 s and goes
\* back to opening a new connection; the send was given to this connection
\* once, and the receive loop is not entered.
C22_SubscribeFailureReconnects ==
    [][ (/\ Len(lt_sleeps') = Len(lt_sleeps) + 1
         /\ Last(lt_sleeps').why = "subscribe")
        => /\ lt_pc = "subscribe"
           /\ lt_pc' = "connect"
           /\ Last(lt_sleeps').d = reconnect_delay
           /\ reconnect_delay' = Min(2 * reconnect_delay, MaxReconnectDelaySecs)
           /\ Len(lt_subscribed') = 1
           /\ lt_last' = NoFrame ]_vars

C22_Witness ==
    /\ lt_pc = "connect"
    /\ Len(lt_sleeps) = 1
    /\ lt_sleeps[1] = [why |-> "subscribe", d |-> 1]
    /\ reconnect_delay = 2
    /\ lt_last = NoFrame

\* C23: in the receive loop the k-th keepalive ping is due 30 k seconds after
\* the loop was entered, whatever was received meanwhile and however late
\* the earlier pings were sent; a ping is sent only when due; a failed ping
\* send leaves the loop for the reconnect path.
C23_PingEveryThirtySeconds ==
    /\ [](lt_pc = "streaming" => lt_age = PingIntervalSecs * lt_pings + lt_ping)
    /\ [][ /\ lt_pings' = lt_pings + 1 => lt_age >= PingIntervalSecs * lt_pings'
           /\ (/\ Len(lt_sleeps') = Len(lt_sleeps) + 1
               /\ Last(lt_sleeps').why = "ping")
              => /\ lt_pc = "streaming"
                 /\ lt_pc' = "connect"
                 /\ lt_ping >= PingIntervalSecs ]_vars

C23_Witness ==
    /\ lt_pc = "streaming"
    /\ lt_pings = 2
    /\ lt_age = 3 * PingIntervalSecs
    /\ lt_ping = PingIntervalSecs
    /\ lt_last.frame = "text"

\* C24: the receive loop is left, for a close frame, the stream end, a receive
\* error, a failed ping or pong send or the timeout, only into the reconnect
\* path, whose sleep is the finite current delay; from there a connection
\* attempt is eventually made; and the loop is entered again, and an update
\* sent, only after a subscribe message was sent on the new connection.
C24_ReconnectsAndResubscribes ==
    /\ [][ /\ (lt_pc = "streaming" /\ lt_pc' \notin {"streaming", "panicked"})
              => /\ lt_pc' = "connect"
                 /\ Len(lt_sleeps') = Len(lt_sleeps) + 1
                 /\ Last(lt_sleeps').d \in 1..MaxReconnectDelaySecs
           /\ (lt_pc = "connect" /\ lt_pc' # "connect")
              => lt_pc' = "subscribe" /\ lt_subscribed' = <<>> /\ lt_last' = NoFrame
           /\ (lt_pc # "streaming" /\ lt_pc' = "streaming")
              => lt_pc = "subscribe" /\ lt_subscribed' = SubscribeMsgs
           /\ (lt_last' # lt_last /\ lt_last'.sent > 0)
              => lt_pc = "streaming" /\ lt_subscribed = SubscribeMsgs ]_vars
    /\ (lt_pc = "connect" /\ lt_sleeps # <<>> /\ Last(lt_sleeps).why \in {"stream", "ping"})
          ~> (lt_pc = "subscribe" \/ (lt_sleeps # <<>> /\ Last(lt_sleeps).why = "connect"))

C24_Witness ==
    /\ lt_pc = "connect"
    /\ lt_sleeps # <<>>
    /\ Last(lt_sleeps).why = "ping"
    /\ lt_last.sent = 2

\* C25: on a connection exactly one subscribe message, the market_stats/all
\* one, is sent, and it has been sent before any frame of that connection is
\* handled.
C25_OneSubscribePerConnection ==
    /\ Len(lt_subscribed) <= 1
    /\ lt_pc = "subscribe" => lt_subscribed = <<>> /\ lt_last = NoFrame
    /\ (lt_pc = "streaming" \/ lt_last # NoFrame)
          => lt_subscribed = << [type |-> "subscribe", channel |-> "market_stats/all"] >>

C25_Witness ==
    /\ lt_pc = "streaming"
    /\ lt_last.frame = "binary"
    /\ lt_pings = 1
    /\ Len(lt_subscribed) = 1

\* C26: a text frame that does not parse as a market-stats message is dropped:
\* handling it sends no update, writes nothing, leaves the backoff delay, the
\* sleeps and the connection as they were, and the adapter stays in the
\* receive loop.
C26_UnparsedTextDropped ==
    [][ (lt_last' # lt_last /\ lt_last'.frame = "text_unparsed")
        => /\ lt_last'.sent = 0
           /\ lt_last'.wrote = <<>>
           /\ lt_pc = "streaming"
           /\ lt_pc' = "streaming"
           /\ UNCHANGED <<reconnect_delay, lt_sleeps, lt_subscribed>> ]_vars

\* The updates of the adapter function kind that are on the channel.
OnChannel(kind) == SelectSeq(fd_tx, LAMBDA m : m.from = kind)

\* C27: the Lighter adapter has sent exactly as many updates as the parsed
\* batches it has taken had entries, whether or not an entry's market id is
\* listed or its numeric fields parse; each is on the channel or was received.
C27_OneUpdatePerEntry ==
    /\ fd_sent["lt"] = fd_taken["lt"]
    /\ Len(OnChannel("lt")) = fd_sent["lt"] - fd_seen["lt"]

C27_Witness ==
    /\ fd_sent["lt"] = 2
    /\ \E i \in DOMAIN fd_tx : IsPlaceholder(fd_tx[i].update.symbol)
    /\ \E i \in DOMAIN fd_tx : fd_tx[i].from = "lt" /\ fd_tx[i].src.mark_price \in Malformed

\* C28: the Hyperliquid adapter has sent exactly one update per perpetual
\* active-context message it has taken; taking any other message (another
\* message kind, a spot context) sends nothing and changes nothing of the
\* adapter or the channel.
C28_OneUpdatePerPerpsContext ==
    /\ [](/\ fd_sent["hl"] = fd_taken["hl"]
          /\ Len(OnChannel("hl")) = fd_sent["hl"] - fd_seen["hl"])
    /\ [][ (fd_msgs' # fd_msgs /\ fd_taken' = fd_taken)
           => UNCHANGED <<fd_tx, fd_sent, fd_seen, fd_status, fd_market_map, fd_subs,
                          fd_senders>> ]_vars

C28_Witness ==
    /\ fd_msgs = 2
    /\ fd_taken["hl"] = 1
    /\ fd_taken["lt"] = 0
    /\ Len(fd_tx) = 1
    /\ fd_tx[1].src.ctx = "Perps"

\* C29: when the Hyperliquid adapter has sent an update (and whenever it is
\* in its receive loop), it has made exactly one ActiveAssetCtx subscription
\* per symbol of the universe it was given, in universe order, all on its one
\* client.
C29_SubscribedBeforeFirstUpdate ==
    (fd_sent["hl"] > 0 \/ fd_status["hl"] = "running")
        => fd_subs = [i \in DOMAIN fd_coins |->
                         [subscription |-> "ActiveAssetCtx", coin |-> fd_coins[i],
                          client |-> "client"]]

C29_Witness ==
    /\ fd_sent["hl"] = 1
    /\ Len(fd_subs) = 3
    /\ fd_subs[3].coin = fd_coins[3]

\* C30: once the Hyperliquid adapter's inbound stream has ended (the SDK has
\* dropped its senders), the adapter function has returned.
C30_StreamEndReturns ==
    (fd_status["hl"] \in {"running", "returned"} /\ "sdk" \notin fd_senders)
        => fd_status["hl"] = "returned"

\* C31: the Lighter adapter requests the funding-rate listing once, before
\* its first connection attempt; no later step (a reconnect included)
\* requests it again or changes market_map.
C31_ListingFetchedOnce ==
    /\ [](/\ lt_fetches <= 1
          /\ lt_pc = "listing" <=> lt_fetches = 0
          /\ lt_pc = "listing" => lt_sleeps = <<>> /\ lt_subscribed = <<>>)
    /\ [][ lt_pc # "listing" => UNCHANGED <<lt_market_map, lt_fetches>> ]_vars

C31_Witness ==
    /\ lt_pc = "streaming"
    /\ lt_fetches = 1
    /\ lt_market_map = BuildMarketMap(coin_list_metadate_lighter(
                            << FR(1, "BTC"), FR(0, "ETH"), FR(1, "WBTC") >>))
    /\ lt_last.frame = "pong"
    /\ lt_pings = 1

PostConnectCauses == {"subscribe", "stream", "ping"}

C39_DelayValues ==
    /\ [](reconnect_delay \in {1, 2, 4, 8, 16, 32, 60})
    /\ [][ reconnect_delay' # reconnect_delay
           => \/ /\ reconnect_delay' = Min(2 * reconnect_delay, MaxReconnectDelaySecs)
                 /\ Len(lt_sleeps') = Len(lt_sleeps) + 1
                 /\ Last(lt_sleeps').d = reconnect_delay
              \/ /\ reconnect_delay' = InitialReconnectDelaySecs
                 /\ lt_pc = "connect"
                 /\ lt_pc' = "subscribe" ]_vars

C39_Witness ==
    /\ reconnect_delay = 60
    /\ Len(lt_sleeps) = 7
    /\ lt_sleeps[7].d = 60
    /\ lt_sleeps[1].why = "subscribe"

\* The updates the consumer has received, in the order received.
Dequeued == SubSeq(tb_emitted, 1, Len(tb_emitted) - Len(tb_rx))

HoldsValuesOf(row, u) ==
    /\ row.funding = u.funding
    /\ row.open_interest = u.oi
    /\ row.oracle_price = u.price

\* C32: every row of the table holds the values of the last update of its
\* symbol that the consumer has received (the values of CoinData::new when
\* there is none); the updates are received in the order sent, so once the
\* feed is drained that is the most recently emitted update of the symbol.
C32_RowsHoldLatest ==
    /\ tb_rx = SubSeq(tb_emitted, Len(tb_emitted) - Len(tb_rx) + 1, Len(tb_emitted))
    /\ \A i \in DOMAIN items :
           LET mine == SelectSeq(Dequeued, LAMBDA m : m.update.symbol = items[i].coin)
           IN  IF mine = <<>>
               THEN items[i] = CoinDataNew(items[i].coin)
               ELSE HoldsValuesOf(items[i], Last(mine).update)

C32_Witness ==
    /\ tb_rx = <<>>
    /\ Len(tb_emitted) = 2
    /\ tb_emitted[1].update.symbol = "BTC"
    /\ tb_emitted[2].update.symbol = "BTC"
    /\ tb_emitted[1].update.funding # tb_emitted[2].update.funding
    /\ \E i \in DOMAIN items :
           items[i].coin = "BTC" /\ HoldsValuesOf(items[i], tb_emitted[2].update)

\* C33: in the composite selection the consumer keeps a record per symbol
\* and exchange: once the feed is drained, for every symbol of the table and
\* either adapter the values of that adapter's last update of the symbol are
\* held by a row of the symbol.
C33_KeyedBySymbolAndExchange ==
    tb_rx = <<>> =>
        \A k \in DOMAIN tb_emitted :
            LET m == tb_emitted[k]
            IN  (/\ m.update.exchange = 3
                 /\ \E i \in DOMAIN items : items[i].coin = m.update.symbol
                 /\ \A j \in DOMAIN tb_emitted :
                        (j > k /\ tb_emitted[j].update.symbol = m.update.symbol)
                            => tb_emitted[j].from # m.from)
                => \E i \in DOMAIN items :
                       items[i].coin = m.update.symbol /\ HoldsValuesOf(items[i], m.update)

\* C38: no step changes the symbols of the table's rows or their number, and
\* receiving an update whose symbol is no row's (a placeholder included)
\* changes nothing in the table; receiving any update changes at most the
\* rows of its symbol.
C38_RowsNeverAdded ==
    [][ /\ [i \in DOMAIN items' |-> items'[i].coin] = [i \in DOMAIN items |-> items[i].coin]
        /\ (tb_rx # <<>> /\ tb_rx' = Tail(tb_rx))
           => /\ (\A i \in DOMAIN items : items[i].coin # Head(tb_rx).update.symbol)
                 => items' = items
              /\ \A i \in DOMAIN items :
                     items[i].coin # Head(tb_rx).update.symbol => items'[i] = items[i] ]_vars

C38_Witness ==
    /\ tb_rx = <<>>
    /\ Len(tb_emitted) = 2
    /\ IsPlaceholder(tb_emitted[1].update.symbol)
    /\ tb_emitted[2].update.symbol = "WBTC"
    /\ Len(items) = 3
    /\ \A i \in DOMAIN items : items[i] = CoinDataNew(items[i].coin)

\* The commands handled: the exchange arm has run to its end for them.
Switches == SelectSeq(handled, LAMBDA h : h.outcome = "switched")

\* C34: when every command sent has been handled and no universe fetch has
\* failed, the selection is the last command's id, every adapter task that
\* has not ended was started for it by the last switch, the last universe
\* published is one of that id, and no command was lost.
C34_SettlesOnLastCommand ==
    (mgr_pc = "recv" /\ exchange_rx = <<>> /\ handled # <<>>)
        => /\ last_exchange = Last(handled).cmd
           /\ Len(handled) = sent
           /\ \A i \in Live : adapters[i].gen = gen /\ adapters[i].sel = last_exchange
           /\ Switches # <<>>
                 => /\ Last(coin_list_rx) = Last(Switches).coins
                    /\ Last(Switches).cmd = last_exchange
                    /\ Last(coin_list_rx) \in fetch_coin_list(last_exchange)

\* C35: once the task started for the current selection has ended, no
\* adapter task runs, until another selection is handled.
C35_EndedStaysSilent ==
    (mgr_pc = "recv" /\ gen > 0 /\ OuterEnded(gen)) => Live = {}

\* The symbols that only Lighter listings have.
LighterOnly ==
    UNION { Range(Symbols(coin_list_metadate_lighter(raw))) : raw \in LighterListings }
        \ UNION { Range(hl) : hl \in HyperliquidListings }

\* C37: for a switch to the composite selection 3 the universe fetched is a
\* Hyperliquid listing, without any symbol only Lighter lists; it is the list
\* published for that switch and the list both adapter functions are given.
C37_CompositeUniverseIsHyperliquid ==
    /\ \A k \in DOMAIN Switches :
           Switches[k].cmd = 3
               => /\ Switches[k].coins \in HyperliquidListings
                  /\ Range(Switches[k].coins) \cap LighterOnly = {}
                  /\ k <= Len(coin_list_rx) /\ coin_list_rx[k] = Switches[k].coins
    /\ \A i \in DOMAIN adapters :
           adapters[i].sel = 3
               => /\ adapters[i].coins \in HyperliquidListings
                  /\ Range(adapters[i].coins) \cap LighterOnly = {}
                  /\ \E k \in DOMAIN Switches :
                         Switches[k].cmd = 3 /\ Switches[k].coins = adapters[i].coins

C37_Witness ==
    /\ mgr_pc = "recv"
    /\ last_exchange = 3
    /\ Last(coin_list_rx) = <<"BTC", "ETH", "SOL">>
    /\ \E i, j \in Streaming :
           /\ adapters[i].sel = 3 /\ adapters[i].kind = "hl"
           /\ adapters[j].sel = 3 /\ adapters[j].kind = "lt"
           /\ adapters[i].coins = adapters[j].coins

====
